---- MODULE Spec2Model ----
(***************************************************************************)
(* Model of the OpenRazer client layer of rusty-razer-tray:                *)
(*   src/src/openrazer/device.rs   Device (introspection, capabilities,    *)
(*                                 typed operations)                       *)
(*   src/src/openrazer/manager.rs  Manager (get_devices, get_device)       *)
(*   src/src/main.rs               the battery polling loop                *)
(* A remote reply is an input of the operation that receives it.           *)
(***************************************************************************)
EXTENDS Integers, Sequences, FiniteSets, TLC

VARIABLES
    device,       \* the Device in the caller's hands (NoDevice: none)
    object_path,  \* Device.object_path
    last,         \* the latest operation: what the bus gave it and what it returned
    sanitized,    \* the text introspect handed to Document::parse
    requests,     \* the requests the latest operation sent: object path and member
    loop_value,   \* `value`, the local of the polling loop
    counter,      \* BatteryTray.counter, the value the tray displays
    task          \* the polling task: "polling", or "finished" once it has ended

vars == <<device, object_path, last, sanitized, requests, loop_value, counter, task>>

(***************************************************************************)
(* Option<&str>: None is <<>>, Some(s) is <<s>>.                           *)
(***************************************************************************)
None == <<>>

Some(s) == <<s>>

(***************************************************************************)
(* Bounds of the model.                                                    *)
(***************************************************************************)
MaxBody == 4

MaxCapIfaces == 2

MaxCapMethods == 1

MaxArray == 3

MaxPayload == 5

(***************************************************************************)
(* An introspection document is a sequence of lines.  A line is one of the *)
(* markup items below (kind, and the value of its name attribute):         *)
(*   doctype_line         <!DOCTYPE node>                                  *)
(*   doctype_malformed    <!DOCTYPE node PUBLIC>                           *)
(*   doctype_open         <!DOCTYPE node PUBLIC "-//freedesktop//...//EN"  *)
(*   doctype_cont         "-//freedesktop//DTD D-BUS ...//EN"              *)
(*   doctype_sysid        "http://www.freedesktop.org/.../introspect.dtd"> *)
(*   doctype_subset_open  <!DOCTYPE node [                                 *)
(*   doctype_entity       <!ENTITY x "y">                                  *)
(*   doctype_subset_close ]>                                               *)
(*   node_open            <node>                                           *)
(*   node_close           </node>                                          *)
(*   iface_open           <interface name="..."> or <interface>            *)
(*   iface_close          </interface>                                     *)
(*   method               <method name="..."/> or <method/>                *)
(*   signal               <signal name="..."/>                             *)
(***************************************************************************)
Line(kind, name) == [kind |-> kind, name |-> name]

DtLine == Line("doctype_line", None)

DtMalformed == Line("doctype_malformed", None)

DtOpen == Line("doctype_open", None)

DtCont == Line("doctype_cont", None)

DtSysid == Line("doctype_sysid", None)

DtSubsetOpen == Line("doctype_subset_open", None)

DtEntity == Line("doctype_entity", None)

DtSubsetClose == Line("doctype_subset_close", None)

NodeOpen == Line("node_open", None)

NodeClose == Line("node_close", None)

IfaceOpen(name) == Line("iface_open", name)

IfaceClose == Line("iface_close", None)

Method(name) == Line("method", name)

Signal(name) == Line("signal", name)

\* line.trim_start().starts_with("<!DOCTYPE")
StartsWithDoctype(line) ==
    line.kind \in {"doctype_line", "doctype_malformed", "doctype_open", "doctype_subset_open"}

\* line.trim_start().contains('>')
ContainsGt(line) == line.kind \notin {"doctype_open", "doctype_cont", "doctype_subset_open"}

(***************************************************************************)
(* Device::strip_doctype: a line-by-line scan with the flag in_doctype.    *)
(***************************************************************************)
RECURSIVE StripFrom(_, _, _)
StripFrom(lines, i, in_doctype) ==
    IF i > Len(lines) THEN <<>>
    ELSE IF in_doctype THEN StripFrom(lines, i + 1, ~ContainsGt(lines[i]))
    ELSE IF StartsWithDoctype(lines[i]) THEN StripFrom(lines, i + 1, ~ContainsGt(lines[i]))
    ELSE <<lines[i]>> \o StripFrom(lines, i + 1, FALSE)

strip_doctype(xml) == StripFrom(xml, 1, FALSE)

(***************************************************************************)
(* roxmltree's Document::parse, as far as the code depends on it: whether  *)
(* the text is a well-formed XML document.  The scan keeps the stack of    *)
(* open elements; phase is the place in the document grammar               *)
(* (prolog, inside a DOCTYPE, after the DOCTYPE, content, epilog).         *)
(***************************************************************************)
OpenKinds == {"node_open", "iface_open"}

EmptyElementKinds == {"method", "signal"}

CloseOf(kind) == IF kind = "node_open" THEN "node_close" ELSE "iface_close"

RECURSIVE ScanXml(_, _, _, _)
ScanXml(lines, i, phase, stack) ==
    IF i > Len(lines) THEN phase = "epilog"
    ELSE LET k == lines[i].kind IN
      CASE phase \in {"prolog", "misc"} ->
             IF phase = "prolog" /\ k = "doctype_line" THEN ScanXml(lines, i + 1, "misc", stack)
             ELSE IF phase = "prolog" /\ k = "doctype_open"
               THEN ScanXml(lines, i + 1, "dt_external", stack)
             ELSE IF phase = "prolog" /\ k = "doctype_subset_open"
               THEN ScanXml(lines, i + 1, "dt_subset", stack)
             ELSE IF k \in OpenKinds THEN ScanXml(lines, i + 1, "content", <<k>>)
             ELSE IF k \in EmptyElementKinds THEN ScanXml(lines, i + 1, "epilog", stack)
             ELSE FALSE
        [] phase = "dt_external" ->
             IF k = "doctype_cont" THEN ScanXml(lines, i + 1, "dt_external", stack)
             ELSE IF k = "doctype_sysid" THEN ScanXml(lines, i + 1, "misc", stack)
             ELSE FALSE
        [] phase = "dt_subset" ->
             IF k = "doctype_entity" THEN ScanXml(lines, i + 1, "dt_subset", stack)
             ELSE IF k = "doctype_subset_close" THEN ScanXml(lines, i + 1, "misc", stack)
             ELSE FALSE
        [] phase = "content" ->
             IF k \in OpenKinds THEN ScanXml(lines, i + 1, "content", <<k>> \o stack)
             ELSE IF k \in EmptyElementKinds THEN ScanXml(lines, i + 1, "content", stack)
             ELSE IF k = CloseOf(Head(stack))
               THEN ScanXml(lines, i + 1,
                            IF Len(stack) = 1 THEN "epilog" ELSE "content", Tail(stack))
             ELSE FALSE
        [] OTHER -> FALSE

Document_parse(text) == ScanXml(text, 1, "prolog", <<>>)

(***************************************************************************)
(* Device::introspect, the collection loop: every interface element with a *)
(* non-empty name gives its name, and each of its method children that has *)
(* a name attribute gives "<interface>;<method>".                          *)
(***************************************************************************)
\* Key with the wrong separator
KeyDot(iface_name, method_name) == iface_name \o "." \o method_name

Key(iface_name, method_name) == iface_name \o ";" \o method_name

\* Some(name) if !name.is_empty() => name, _ => continue
UsableIfaceName(attr) == attr # None /\ attr[1] # ""

\* if let Some(method_name) = method.attribute("name")
UsableMethodName(attr) == attr # None

RECURSIVE CollectFrom(_, _, _)
CollectFrom(lines, i, stack) ==
    IF i > Len(lines) THEN {}
    ELSE LET l == lines[i] IN
      IF l.kind \in OpenKinds
        THEN (IF l.kind = "iface_open" /\ UsableIfaceName(l.name) THEN {l.name[1]} ELSE {})
             \cup CollectFrom(lines, i + 1, <<l>> \o stack)
      ELSE IF l.kind \in {"node_close", "iface_close"}
        THEN CollectFrom(lines, i + 1, IF stack = <<>> THEN stack ELSE Tail(stack))
      ELSE IF l.kind = "method"
        THEN (IF /\ stack # <<>>
                 /\ Head(stack).kind = "iface_open"
                 /\ UsableIfaceName(Head(stack).name)
                 /\ UsableMethodName(l.name)
              THEN {Key(Head(stack).name[1], l.name[1])} ELSE {})
             \cup CollectFrom(lines, i + 1, stack)
      ELSE CollectFrom(lines, i + 1, stack)

CollectEntries(doc) == CollectFrom(doc, 1, <<>>)

(***************************************************************************)
(* What the bus gives one operation: the proxy could not be made           *)
(* (Proxy::new(..).await?), the call failed, or a reply with the D-Bus     *)
(* signature sig and the body of that type.                                *)
(***************************************************************************)
NoProxy == [kind |-> "no_proxy", sig |-> "", body |-> <<>>]

ErrorReply == [kind |-> "error", sig |-> "", body |-> <<>>]

Reply(sig, body) == [kind |-> "reply", sig |-> sig, body |-> body]

\* a reply whose body is not of the type the caller asks for
MistypedReply == Reply("v", <<>>)

\* zbus::Result values
Ok(value, calls) == [ok |-> TRUE, err |-> "", msg |-> "", value |-> value, calls |-> calls]

\* an error of the bus layer, propagated by `?`
ZbusErr(calls) == [ok |-> FALSE, err |-> "zbus", msg |-> "", value |-> <<>>, calls |-> calls]

\* zbus::Error::Failure(msg), made by this layer
Failure(msg, calls) ==
    [ok |-> FALSE, err |-> "Failure", msg |-> msg, value |-> <<>>, calls |-> calls]

\* Proxy::new(..).await? and then proxy.call::<_, _, R>(method, ..).await, R of signature sig
proxy_call(method, sig, reply) ==
    IF reply.kind = "no_proxy" THEN ZbusErr(<<>>)
    ELSE IF reply.kind = "error" \/ reply.sig # sig THEN ZbusErr(<<method>>)
    ELSE Ok(reply.body, <<method>>)

\* introspect taking a document that does not parse for one with no interfaces
introspect_lenient(reply) ==
    IF ~proxy_call("Introspect", "s", reply).ok THEN proxy_call("Introspect", "s", reply)
    ELSE IF ~Document_parse(strip_doctype(reply.body)) THEN Ok({}, <<"Introspect">>)
    ELSE Ok(CollectEntries(strip_doctype(reply.body)), <<"Introspect">>)

introspect(reply) ==
    IF ~proxy_call("Introspect", "s", reply).ok THEN proxy_call("Introspect", "s", reply)
    ELSE IF ~Document_parse(strip_doctype(reply.body))
      THEN Failure("Failed to parse introspection XML", <<"Introspect">>)
    ELSE Ok(CollectEntries(strip_doctype(reply.body)), <<"Introspect">>)

(***************************************************************************)
(* Device: introspection, supported_features, supported_leds.              *)
(***************************************************************************)
LedIds ==
    {"Unspecified", "LogoLED", "ScrollWheelLED", "BacklightLED", "LeftSideLED",
     "RightSideLED", "KeymapRedLED", "KeymapGreenLED", "KeymapBlueLED", "ChargingLED",
     "FastChargingLED", "FullyChargedLED"}

\* Device::has_capability_internal
\* has_capability_internal looking at the interface alone
has_capability_interface_only(introspection, interface, method) ==
    interface \in introspection

has_capability_internal(introspection, interface, method) ==
    IF method # None THEN Key(interface, method[1]) \in introspection
    ELSE interface \in introspection

\* setup_capabilities, the nine feature rules: <<interface, method, feature>>
FeatureTable ==
    {<<"razer.device.misc", Some("getKeyboardLayout"), "keyboard_layout">>,
     <<"razer.device.dpi", Some("setDPI"), "dpi">>,
     <<"razer.device.dpi", Some("availableDPI"), "restricted_dpi">>,
     <<"razer.device.dpi", Some("setDPIStages"), "dpi_stages">>,
     <<"razer.device.misc", Some("setPollRate"), "poll_rate">>,
     <<"razer.device.lighting.chroma", Some("setCustom"), "custom_frame">>,
     <<"razer.device.power", Some("getBattery"), "battery">>,
     <<"razer.device.power", Some("getLowBatteryThreshold"), "low_battery_threshold">>,
     <<"razer.device.power", Some("getIdleTime"), "idle_time">>}

\* setup_capabilities, the rule of LedId::Unspecified
\* the rule of LedId::Unspecified without its last alternative
ChromaLedPresentNoBrightness(introspection) ==
    \/ has_capability_internal(introspection, "razer.device.lighting.chroma", Some("setNone"))
    \/ has_capability_internal(introspection, "razer.device.lighting.chroma", Some("setStatic"))
    \/ has_capability_internal(introspection, "razer.device.lighting.bw2013", None)

ChromaLedPresent(introspection) ==
    \/ has_capability_internal(introspection, "razer.device.lighting.chroma", Some("setNone"))
    \/ has_capability_internal(introspection, "razer.device.lighting.chroma", Some("setStatic"))
    \/ has_capability_internal(introspection, "razer.device.lighting.bw2013", None)
    \/ has_capability_internal(introspection, "razer.device.lighting.brightness", None)

\* setup_capabilities, the rules of the other LEDs: <<interface, method, led, label>>
\* the LED rules with the three keymap LEDs keyed on the interface alone
LedTableBareProfile ==
    {<<"razer.device.lighting.logo", None, "LogoLED", "Logo">>,
     <<"razer.device.lighting.scroll", None, "ScrollWheelLED", "Scroll">>,
     <<"razer.device.lighting.backlight", None, "BacklightLED", "Backlight">>,
     <<"razer.device.lighting.left", None, "LeftSideLED", "Left">>,
     <<"razer.device.lighting.right", None, "RightSideLED", "Right">>,
     <<"razer.device.lighting.profile_led", None, "KeymapRedLED", "RedLED">>,
     <<"razer.device.lighting.profile_led", None, "KeymapGreenLED", "GreenLED">>,
     <<"razer.device.lighting.profile_led", None, "KeymapBlueLED", "BlueLED">>,
     <<"razer.device.lighting.charging", None, "ChargingLED", "Charging">>,
     <<"razer.device.lighting.fast_charging", None, "FastChargingLED", "FastCharging">>,
     <<"razer.device.lighting.fully_charged", None, "FullyChargedLED", "FullyCharged">>}

LedTable ==
    {<<"razer.device.lighting.logo", None, "LogoLED", "Logo">>,
     <<"razer.device.lighting.scroll", None, "ScrollWheelLED", "Scroll">>,
     <<"razer.device.lighting.backlight", None, "BacklightLED", "Backlight">>,
     <<"razer.device.lighting.left", None, "LeftSideLED", "Left">>,
     <<"razer.device.lighting.right", None, "RightSideLED", "Right">>,
     <<"razer.device.lighting.profile_led", Some("setRedLED"), "KeymapRedLED", "RedLED">>,
     <<"razer.device.lighting.profile_led", Some("setGreenLED"), "KeymapGreenLED", "GreenLED">>,
     <<"razer.device.lighting.profile_led", Some("setBlueLED"), "KeymapBlueLED", "BlueLED">>,
     <<"razer.device.lighting.charging", None, "ChargingLED", "Charging">>,
     <<"razer.device.lighting.fast_charging", None, "FastChargingLED", "FastCharging">>,
     <<"razer.device.lighting.fully_charged", None, "FullyChargedLED", "FullyCharged">>}

SupportedFeatures(introspection) ==
    {t[3] : t \in {u \in FeatureTable : has_capability_internal(introspection, u[1], u[2])}}

LedRules(introspection) ==
    (IF ChromaLedPresent(introspection) THEN {<<"Unspecified", "Chroma">>} ELSE {})
    \cup {<<t[3], t[4]>> :
            t \in {u \in LedTable : has_capability_internal(introspection, u[1], u[2])}}

SupportedLeds(introspection) ==
    [led \in {r[1] : r \in LedRules(introspection)} |->
        (CHOOSE r \in LedRules(introspection) : r[1] = led)[2]]

NoDevice ==
    [exists |-> FALSE, introspection |-> {}, supported_features |-> {},
     supported_leds |-> SupportedLeds({})]

\* the struct literal of Device::new followed by setup_capabilities
setup_capabilities(introspection) ==
    [exists |-> TRUE, introspection |-> introspection,
     supported_features |-> SupportedFeatures(introspection),
     supported_leds |-> SupportedLeds(introspection)]

has_feature(dev, feature) == feature \in dev.supported_features

supported_leds(dev) == dev.supported_leds

(***************************************************************************)
(* The record of the latest operation: its name, the reply it received,    *)
(* its result, and the remote calls it issued, in order.                   *)
(***************************************************************************)
\* arg: the object path an operation of the Manager was given, NoPath otherwise
MkLast(op, reply, r) ==
    [op |-> op, reply |-> reply, ok |-> r.ok, err |-> r.err, msg |-> r.msg,
     value |-> r.value, calls |-> r.calls, arg |-> <<>>]

(***************************************************************************)
(* Object paths are sequences of characters.                               *)
(***************************************************************************)
NoPath == <<>>

OPENRAZER_ROOT_PATH == <<"/", "o", "r", "g", "/", "r", "a", "z", "e", "r">>

\* format!("/org/razer/device/{serial}")
DevicePath(serial) == OPENRAZER_ROOT_PATH \o <<"/", "d", "e", "v", "i", "c", "e", "/">> \o serial

\* the object path of the Device the specifications of Device work on
SomeDevicePath == DevicePath(<<"P", "M", "1">>)

\* Proxy::new(connection, OPENRAZER_SERVICE_NAME, path, interface) and the calls made on it
Requests(path, calls) == [k \in 1..Len(calls) |-> [path |-> path, member |-> calls[k]]]

\* the polling loop is left as it is
LoopUnchanged == UNCHANGED <<loop_value, counter, task>>

Init ==
    /\ device = NoDevice
    /\ object_path = NoPath
    /\ last = MkLast("none", ErrorReply, Ok(<<>>, <<>>))
    /\ sanitized = <<>>
    /\ requests = <<>>
    /\ loop_value = 0
    /\ counter = 0
    /\ task = "polling"

(***************************************************************************)
(* Device::new: the device variable holds the Device returned by the       *)
(* latest construction, NoDevice when it returned an error.  The model     *)
(* follows one Device at a time: the next construction starts after the    *)
(* caller has let go of the result of the latest one (Release).            *)
(***************************************************************************)
Device_new(path, Docs) ==
    /\ last.op = "none"
    /\ \E reply \in {NoProxy, ErrorReply, MistypedReply} \cup {Reply("s", d) : d \in Docs} :
        LET r == introspect(reply) IN
        /\ sanitized' = IF proxy_call("Introspect", "s", reply).ok
                         THEN strip_doctype(reply.body) ELSE <<>>
        /\ device' = IF r.ok THEN setup_capabilities(r.value) ELSE NoDevice
        /\ object_path' = IF r.ok THEN path ELSE NoPath
        /\ last' = [MkLast("new", reply, IF r.ok THEN Ok(<<>>, r.calls) ELSE r)
                        EXCEPT !.arg = path]
        /\ requests' = Requests(path, r.calls)
        /\ LoopUnchanged

New(Docs) == Device_new(SomeDevicePath, Docs)

\* the caller drops the Device, or the error, it was given
Release ==
    /\ last.op # "none"
    /\ device' = NoDevice
    /\ object_path' = NoPath
    /\ last' = MkLast("none", ErrorReply, Ok(<<>>, <<>>))
    /\ sanitized' = <<>>
    /\ requests' = <<>>
    /\ LoopUnchanged

(***************************************************************************)
(* Introspection documents: a preamble, then <node>, up to MaxBody lines   *)
(* of interface and method markup in any order, then </node>.              *)
(***************************************************************************)
Preambles ==
    {<<>>, <<DtLine>>, <<DtMalformed>>, <<DtOpen>>, <<DtOpen, DtSysid>>,
     <<DtOpen, DtCont, DtSysid>>, <<DtSubsetOpen, DtEntity, DtSubsetClose>>}

IfaceAttrs == {None, Some(""), Some("razer.device.dpi"), Some("razer.device.misc")}

MethodAttrs == {None, Some(""), Some("setDPI")}

BodyLines ==
    {IfaceOpen(n) : n \in IfaceAttrs} \cup {IfaceClose} \cup {Method(n) : n \in MethodAttrs}
        \cup {Signal(Some("Changed"))}

SeqsUpTo(S, n) == UNION {[1..k -> S] : k \in 0..n}

IntrospectDocs ==
    {p \o <<NodeOpen>> \o b \o <<NodeClose>> : p \in Preambles, b \in SeqsUpTo(BodyLines, MaxBody)}

NewIntrospect == New(IntrospectDocs)

NextIntrospect == NewIntrospect \/ Release

SpecIntrospect == Init /\ [][NextIntrospect]_vars

(***************************************************************************)
(* Documents of the OpenRazer daemon: behind the two-line DOCTYPE, up to   *)
(* MaxCapIfaces interface elements, each one of the daemon's interfaces    *)
(* with up to MaxCapMethods of its methods as children.                    *)
(***************************************************************************)
MethodsOf(interface) ==
    CASE interface = "razer.device.misc" ->
           {"getKeyboardLayout", "setPollRate", "getSupportedPollRates"}
      [] interface = "razer.device.dpi" -> {"setDPI", "availableDPI", "setDPIStages", "getDPI"}
      [] interface = "razer.device.lighting.chroma" ->
           {"setCustom", "setNone", "setStatic", "setSpectrum"}
      [] interface = "razer.device.power" ->
           {"getBattery", "getLowBatteryThreshold", "getIdleTime"}
      [] interface = "razer.device.lighting.profile_led" ->
           {"setRedLED", "setGreenLED", "setBlueLED"}
      [] OTHER -> {}

RazerInterfaces ==
    {"razer.device.misc", "razer.device.dpi", "razer.device.power",
     "razer.device.lighting.chroma", "razer.device.lighting.bw2013",
     "razer.device.lighting.brightness", "razer.device.lighting.logo",
     "razer.device.lighting.scroll", "razer.device.lighting.backlight",
     "razer.device.lighting.left", "razer.device.lighting.right",
     "razer.device.lighting.profile_led", "razer.device.lighting.charging",
     "razer.device.lighting.fast_charging", "razer.device.lighting.fully_charged"}

RECURSIVE SetToSeq(_)
SetToSeq(S) == IF S = {} THEN <<>> ELSE LET x == CHOOSE y \in S : TRUE IN <<x>> \o SetToSeq(S \ {x})

RECURSIVE Concat(_)
Concat(seqs) == IF seqs = <<>> THEN <<>> ELSE Head(seqs) \o Concat(Tail(seqs))

\* <interface name="..."> <method name="..."/> ... </interface>
InterfaceElement(interface, methods) ==
    <<IfaceOpen(Some(interface))>>
        \o [k \in 1..Cardinality(methods) |-> Method(Some(SetToSeq(methods)[k]))]
        \o <<IfaceClose>>

DaemonDocument(elements) == <<DtOpen, DtSysid, NodeOpen>> \o Concat(elements) \o <<NodeClose>>

CapElements ==
    UNION {{InterfaceElement(i, ms) :
              ms \in {m \in SUBSET MethodsOf(i) : Cardinality(m) <= MaxCapMethods}} :
           i \in RazerInterfaces}

CapDocs == {DaemonDocument(es) : es \in SeqsUpTo(CapElements, MaxCapIfaces)}

NewCaps == New(CapDocs)

NextCaps == NewCaps \/ Release

SpecCaps == Init /\ [][NextCaps]_vars

(***************************************************************************)
(* The typed operations.  Each is given the Device and what the bus gives  *)
(* its one call, and yields a zbus::Result with the calls it issued.       *)
(***************************************************************************)
\* `value as u16`, `value as u8` of an i32
AsU16(v) == v % 65536

\* an f64 is <<is it NaN, its value in tenths>>
F64(tenths) == <<FALSE, tenths>>

NaN == <<TRUE, 0>>

AsU8(v) == v % 256

(***************************************************************************)
(* serde_json::from_str on a payload given as its tokens.  A token is a    *)
(* brace, a colon, a string literal or a number literal; a JSON value is   *)
(* a string, a number, or an object of one member or none.                 *)
(***************************************************************************)
JsonToken(t, v) == [t |-> t, v |-> v]

JsonString(s) == [type |-> "string", s |-> s, members |-> <<>>]

JsonNumber(s) == [type |-> "number", s |-> s, members |-> <<>>]

JsonObject(members) == [type |-> "object", s |-> "", members |-> members]

JsonNothing == [ok |-> FALSE, next |-> 0, val |-> JsonNumber("")]

RECURSIVE JsonValueAt(_, _)
JsonValueAt(toks, i) ==
    IF i > Len(toks) THEN JsonNothing
    ELSE IF toks[i].t = "str" THEN [ok |-> TRUE, next |-> i + 1, val |-> JsonString(toks[i].v)]
    ELSE IF toks[i].t = "num" THEN [ok |-> TRUE, next |-> i + 1, val |-> JsonNumber(toks[i].v)]
    ELSE IF toks[i].t = "{" THEN
        IF i + 1 <= Len(toks) /\ toks[i + 1].t = "}"
          THEN [ok |-> TRUE, next |-> i + 2, val |-> JsonObject(<<>>)]
        ELSE IF i + 2 <= Len(toks) /\ toks[i + 1].t = "str" /\ toks[i + 2].t = ":"
          THEN LET m == JsonValueAt(toks, i + 3) IN
               IF m.ok /\ m.next <= Len(toks) /\ toks[m.next].t = "}"
                 THEN [ok |-> TRUE, next |-> m.next + 1,
                       val |-> JsonObject(<<[key |-> toks[i + 1].v, value |-> m.val]>>)]
               ELSE JsonNothing
        ELSE JsonNothing
    ELSE JsonNothing

\* Result<Value>: the whole payload must be one value
serde_json_from_str(payload) ==
    LET r == JsonValueAt(payload, 1) IN
    IF r.ok /\ r.next = Len(payload) + 1 THEN r ELSE JsonNothing

\* Value::get taking the first member whatever its key
JsonGetAny(value, key) ==
    IF value.type = "object" /\ value.members # <<>> THEN Some(value.members[1].value)
    ELSE None

\* Value::get(key): Option<&Value>
JsonGet(value, key) ==
    IF value.type = "object" /\ \E k \in 1..Len(value.members) : value.members[k].key = key
      THEN Some((CHOOSE m \in {value.members[k] : k \in 1..Len(value.members)} : m.key = key).value)
    ELSE None

\* Value::as_str: Option<&str>
JsonAsStr(value) == IF value.type = "string" THEN Some(value.s) ELSE None

\* value.get("top_img").and_then(|item| item.as_str()).unwrap_or("")
TopImg(value) ==
    LET item == JsonGet(value, "top_img") IN
    IF item = None THEN ""
    ELSE IF JsonAsStr(item[1]) = None THEN ""
    ELSE JsonAsStr(item[1])[1]

get_device_image_url(dev, reply) ==
    LET r == proxy_call("getRazerUrls", "s", reply) IN
    IF ~r.ok THEN r
    ELSE IF ~serde_json_from_str(r.value).ok THEN Failure("json", r.calls)
    ELSE Ok(TopImg(serde_json_from_str(r.value).val), r.calls)

\* get_device_type leaving "mug" as it is
get_device_type_mug_unmapped(dev, reply) ==
    LET r == proxy_call("getDeviceType", "s", reply) IN
    IF ~r.ok THEN r
    ELSE Ok(CASE r.value = "core" -> "accessory"
              [] r.value = "mousemat" -> "mousepad"
              [] OTHER -> r.value, r.calls)

get_device_type(dev, reply) ==
    LET r == proxy_call("getDeviceType", "s", reply) IN
    IF ~r.ok THEN r
    ELSE Ok(CASE r.value = "core" -> "accessory"
              [] r.value = "mousemat" -> "mousepad"
              [] r.value = "mug" -> "accessory"
              [] OTHER -> r.value, r.calls)

get_keyboard_layout(dev, reply) ==
    LET r == proxy_call("getKeyboardLayout", "s", reply) IN
    IF ~r.ok THEN r
    ELSE Ok(CASE r.value = "de_DE" -> "German"
              [] r.value = "el_GR" -> "Greek"
              [] r.value = "en_GB" -> "UK"
              [] r.value = "en_US" -> "US"
              [] r.value = "en_US_mac" -> "US-mac"
              [] r.value = "es_ES" -> "Spanish"
              [] r.value = "fr_FR" -> "French"
              [] r.value = "it_IT" -> "Italian"
              [] r.value = "ja_JP" -> "Japanese"
              [] r.value = "pt_PT" -> "Portuguese"
              [] OTHER -> r.value, r.calls)

get_poll_rate(dev, reply) ==
    LET r == proxy_call("getPollRate", "i", reply) IN
    IF ~r.ok THEN r ELSE Ok(AsU16(r.value), r.calls)

max_dpi(dev, reply) ==
    LET r == proxy_call("maxDPI", "i", reply) IN
    IF ~r.ok THEN r ELSE Ok(AsU16(r.value), r.calls)

\* get_supported_poll_rates falling back to the fixed list when the call fails too
get_supported_poll_rates_or_default(dev, reply) ==
    IF ~has_capability_internal(dev.introspection, "razer.device.misc",
                                Some("getSupportedPollRates"))
      THEN Ok(<<125, 500, 1000>>, <<>>)
    ELSE LET r == proxy_call("getSupportedPollRates", "ai", reply) IN
         IF ~r.ok THEN Ok(<<125, 500, 1000>>, r.calls)
         ELSE Ok([k \in 1..Len(r.value) |-> AsU16(r.value[k])], r.calls)

get_supported_poll_rates(dev, reply) ==
    IF ~has_capability_internal(dev.introspection, "razer.device.misc",
                                Some("getSupportedPollRates"))
      THEN Ok(<<125, 500, 1000>>, <<>>)
    ELSE LET r == proxy_call("getSupportedPollRates", "ai", reply) IN
         IF ~r.ok THEN r
         ELSE Ok([k \in 1..Len(r.value) |-> AsU16(r.value[k])], r.calls)

Dpi(x, y) == [dpi_x |-> x, dpi_y |-> y]

\* get_dpi taking an array of three and more for (x, y)
get_dpi_first_two(dev, reply) ==
    LET r == proxy_call("getDPI", "ai", reply) IN
    IF ~r.ok THEN r
    ELSE IF Len(r.value) = 1 THEN Ok(Dpi(AsU16(r.value[1]), 0), r.calls)
    ELSE IF Len(r.value) >= 2 THEN Ok(Dpi(AsU16(r.value[1]), AsU16(r.value[2])), r.calls)
    ELSE Failure("Invalid return array from DPI", r.calls)

get_dpi(dev, reply) ==
    LET r == proxy_call("getDPI", "ai", reply) IN
    IF ~r.ok THEN r
    ELSE IF Len(r.value) = 1 THEN Ok(Dpi(AsU16(r.value[1]), 0), r.calls)
    ELSE IF Len(r.value) = 2 THEN Ok(Dpi(AsU16(r.value[1]), AsU16(r.value[2])), r.calls)
    ELSE Failure("Invalid return array from DPI", r.calls)

\* get_allowed_dpi taking an empty array for an empty list
get_allowed_dpi_lenient(dev, reply) ==
    LET r == proxy_call("availableDPI", "ai", reply) IN
    IF ~r.ok THEN r
    ELSE Ok([k \in 1..Len(r.value) |-> AsU16(r.value[k])], r.calls)

get_allowed_dpi(dev, reply) ==
    LET r == proxy_call("availableDPI", "ai", reply) IN
    IF ~r.ok THEN r
    ELSE IF r.value = <<>> THEN Failure("Invalid return array from availableDPI", r.calls)
    ELSE Ok([k \in 1..Len(r.value) |-> AsU16(r.value[k])], r.calls)

MatrixDimensions(rows, columns) == [rows |-> rows, columns |-> columns]

get_matrix_dimensions(dev, reply) ==
    LET r == proxy_call("getMatrixDimensions", "ai", reply) IN
    IF ~r.ok THEN r
    ELSE IF Len(r.value) # 2
      THEN Failure("Invalid return array from getMatrixDimensions", r.calls)
    ELSE Ok(MatrixDimensions(AsU8(r.value[1]), AsU8(r.value[2])), r.calls)

\* the getters that return what proxy.call gives: <<operation, method, signature>>
PlainGetters ==
    {<<"get_device_mode", "getDeviceMode", "s">>,
     <<"get_serial", "getSerial", "s">>,
     <<"get_device_name", "getDeviceName", "s">>,
     <<"get_firmware_version", "getFirmware", "s">>,
     <<"get_dpi_stages", "getDPIStages", "(ya(qq))">>,
     <<"get_battery_percent", "getBattery", "d">>,
     <<"is_charging", "isCharging", "b">>,
     <<"get_idle_time", "getIdleTime", "q">>,
     <<"get_low_battery_threshold", "getLowBatteryThreshold", "y">>}

plain_getter(g, dev, reply) == proxy_call(g[2], g[3], reply)

\* the operations that send arguments and return (): <<operation, method>>
Setters ==
    {<<"set_poll_rate", "setPollRate">>,
     <<"set_dpi", "setDPI">>,
     <<"set_dpi_stages", "setDPIStages">>,
     <<"set_idle_time", "setIdleTime">>,
     <<"set_low_battery_threshold", "setLowBatteryThreshold">>,
     <<"display_custom_frame", "setCustom">>,
     <<"define_custom_frame", "setKeyRow">>}

setter(g, dev, reply) ==
    LET r == proxy_call(g[2], "", reply) IN
    IF ~r.ok THEN r ELSE Ok(<<>>, r.calls)

(***************************************************************************)
(* The operations as actions.  A caller holds the Device and awaits one    *)
(* operation at a time: an operation starts when the Device is at rest     *)
(* (just constructed, or the latest result taken), and Continue is the     *)
(* caller taking the result.  No operation changes the Device.             *)
(***************************************************************************)
\* the bus is not asked
Unused == [kind |-> "unused", sig |-> "", body |-> <<>>]

AtRest == device.exists /\ last.op \in {"new", "idle"}

\* an operation that failed taking the capabilities away from the Device
ReturnsInvalidating(op, reply, r) ==
    /\ last' = MkLast(op, reply, r)
    /\ requests' = Requests(object_path, r.calls)
    /\ device' = IF r.ok THEN device ELSE setup_capabilities({})
    /\ UNCHANGED <<object_path, sanitized>>
    /\ LoopUnchanged

Returns(op, reply, r) ==
    /\ last' = MkLast(op, reply, r)
    /\ requests' = Requests(object_path, r.calls)
    /\ UNCHANGED <<device, object_path, sanitized>>
    /\ LoopUnchanged

FailureReplies == {NoProxy, ErrorReply, MistypedReply}

JsonTokens ==
    {JsonToken("{", ""), JsonToken("}", ""), JsonToken(":", ""), JsonToken("str", "top_img"),
     JsonToken("str", "http://x"), JsonToken("num", "1")}

Payloads == SeqsUpTo(JsonTokens, MaxPayload)

\* i32 values: in and out of the range of u16
RawInts == {-1, 125, 800, 65661}

Arrays == SeqsUpTo(RawInts, MaxArray)

DeviceTypes == {"core", "mousemat", "mug", "mouse", "keyboard"}

Layouts ==
    {"de_DE", "el_GR", "en_GB", "en_US", "en_US_mac", "es_ES", "fr_FR", "it_IT", "ja_JP",
     "pt_PT", "xx_YY"}

SampleBodies(sig) ==
    CASE sig = "s" -> {"", "PM1234"}
      [] sig = "d" -> {F64(0), F64(575), F64(1000)}
      [] sig = "b" -> {TRUE, FALSE}
      [] sig = "q" -> {0, 300}
      [] sig = "y" -> {5}
      [] sig = "(ya(qq))" -> {<<1, <<Dpi(800, 800), Dpi(1600, 1600)>>>>}

GetDeviceImageUrl ==
    /\ AtRest
    /\ \/ \E reply \in FailureReplies :
             Returns("get_device_image_url", reply, get_device_image_url(device, reply))
       \/ \E p \in Payloads :
             Returns("get_device_image_url", Reply("s", p), get_device_image_url(device, Reply("s", p)))

GetDeviceType ==
    /\ AtRest
    /\ \/ \E reply \in FailureReplies :
             Returns("get_device_type", reply, get_device_type(device, reply))
       \/ \E t \in DeviceTypes :
             Returns("get_device_type", Reply("s", t), get_device_type(device, Reply("s", t)))

GetKeyboardLayout ==
    /\ AtRest
    /\ \/ \E reply \in FailureReplies :
             Returns("get_keyboard_layout", reply, get_keyboard_layout(device, reply))
       \/ \E l \in Layouts :
             Returns("get_keyboard_layout", Reply("s", l), get_keyboard_layout(device, Reply("s", l)))

GetPollRate ==
    /\ AtRest
    /\ \/ \E reply \in FailureReplies :
             Returns("get_poll_rate", reply, get_poll_rate(device, reply))
       \/ \E v \in RawInts :
             Returns("get_poll_rate", Reply("i", v), get_poll_rate(device, Reply("i", v)))

MaxDpi ==
    /\ AtRest
    /\ \/ \E reply \in FailureReplies :
             Returns("max_dpi", reply, max_dpi(device, reply))
       \/ \E v \in RawInts :
             Returns("max_dpi", Reply("i", v), max_dpi(device, Reply("i", v)))

GetSupportedPollRates ==
    /\ AtRest
    /\ \E reply \in
            IF has_capability_internal(device.introspection, "razer.device.misc",
                                       Some("getSupportedPollRates"))
              THEN FailureReplies \cup {Reply("ai", a) : a \in Arrays}
            ELSE {Unused} :
          Returns("get_supported_poll_rates", reply, get_supported_poll_rates(device, reply))

GetDpi ==
    /\ AtRest
    /\ \/ \E reply \in FailureReplies :
             Returns("get_dpi", reply, get_dpi(device, reply))
       \/ \E a \in Arrays :
             Returns("get_dpi", Reply("ai", a), get_dpi(device, Reply("ai", a)))

GetAllowedDpi ==
    /\ AtRest
    /\ \/ \E reply \in FailureReplies :
             Returns("get_allowed_dpi", reply, get_allowed_dpi(device, reply))
       \/ \E a \in Arrays :
             Returns("get_allowed_dpi", Reply("ai", a), get_allowed_dpi(device, Reply("ai", a)))

GetMatrixDimensions ==
    /\ AtRest
    /\ \/ \E reply \in FailureReplies :
             Returns("get_matrix_dimensions", reply, get_matrix_dimensions(device, reply))
       \/ \E a \in Arrays :
             Returns("get_matrix_dimensions", Reply("ai", a), get_matrix_dimensions(device, Reply("ai", a)))

PlainGetter ==
    /\ AtRest
    /\ \E g \in PlainGetters :
          \/ \E reply \in FailureReplies :
                Returns(g[1], reply, plain_getter(g, device, reply))
          \/ \E b \in SampleBodies(g[3]) :
                Returns(g[1], Reply(g[3], b), plain_getter(g, device, Reply(g[3], b)))

Setter ==
    /\ AtRest
    /\ \E g \in Setters :
          \E reply \in FailureReplies \cup {Reply("", <<>>)} :
              Returns(g[1], reply, setter(g, device, reply))

Continue ==
    /\ device.exists
    /\ last.op \notin {"none", "new", "idle"}
    /\ Returns("idle", Unused, Ok(<<>>, <<>>))

OpsDocs ==
    {DaemonDocument(<<InterfaceElement("razer.device.misc", {"getSupportedPollRates", "setPollRate"}),
                      InterfaceElement("razer.device.dpi", {"setDPI"}),
                      InterfaceElement("razer.device.lighting.logo", {})>>),
     DaemonDocument(<<InterfaceElement("razer.device.misc", {"setPollRate"})>>),
     DaemonDocument(<<>>)}

NewOps == New(OpsDocs)

NextOps ==
    \/ NewOps
    \/ GetDeviceImageUrl
    \/ GetDeviceType
    \/ GetKeyboardLayout
    \/ GetPollRate
    \/ MaxDpi
    \/ GetSupportedPollRates
    \/ GetDpi
    \/ GetAllowedDpi
    \/ GetMatrixDimensions
    \/ PlainGetter
    \/ Setter
    \/ Continue
    \/ Release

SpecOps == Init /\ [][NextOps]_vars

(***************************************************************************)
(* Manager.  get_devices asks the daemon's root object for the serials     *)
(* and makes one object path of each; get_device is Device::new.           *)
(***************************************************************************)
MaxSerial == 2

MaxSerials == 2

\* the characters an element of a D-Bus object path is made of
PathChars ==
    {"A", "B", "C", "D", "E", "F", "G", "H", "I", "J", "K", "L", "M", "N", "O", "P", "Q", "R",
     "S", "T", "U", "V", "W", "X", "Y", "Z", "a", "b", "c", "d", "e", "f", "g", "h", "i", "j",
     "k", "l", "m", "n", "o", "p", "q", "r", "s", "t", "u", "v", "w", "x", "y", "z", "0", "1",
     "2", "3", "4", "5", "6", "7", "8", "9", "_"}

\* OwnedObjectPath::try_from(path) is Ok: "/", or elements of PathChars, each
\* after a "/", none empty
ValidObjectPath(path) ==
    /\ path # <<>>
    /\ path[1] = "/"
    /\ \A k \in 1..Len(path) : path[k] = "/" \/ path[k] \in PathChars
    /\ \A k \in 1..(Len(path) - 1) : ~(path[k] = "/" /\ path[k + 1] = "/")
    /\ Len(path) > 1 => path[Len(path)] # "/"

\* get_devices taking the serials that make no object path out of the list
get_devices_skipping(reply) ==
    LET r == proxy_call("getDevices", "as", reply) IN
    IF ~r.ok THEN r
    ELSE Ok(SelectSeq([k \in 1..Len(r.value) |-> DevicePath(r.value[k])], ValidObjectPath),
            r.calls)

get_devices(reply) ==
    LET r == proxy_call("getDevices", "as", reply) IN
    IF ~r.ok THEN r
    ELSE IF \E k \in 1..Len(r.value) : ~ValidObjectPath(DevicePath(r.value[k]))
      THEN Failure("object path", r.calls)
    ELSE Ok([k \in 1..Len(r.value) |-> DevicePath(r.value[k])], r.calls)

\* serials as the daemon may report them: characters of object paths and others
SerialChars == {"P", "1", "-"}

Serials == SeqsUpTo(SerialChars, MaxSerial)

SerialLists == SeqsUpTo(Serials, MaxSerials)

\* the object paths a caller hands to get_device
ManagerPaths == {DevicePath(serial) : serial \in {<<"P">>, <<"P", "1">>}}

GetDevices ==
    /\ last.op = "none"
    /\ \E reply \in FailureReplies \cup {Reply("as", serials) : serials \in SerialLists} :
          /\ last' = MkLast("get_devices", reply, get_devices(reply))
          /\ requests' = Requests(OPENRAZER_ROOT_PATH, get_devices(reply).calls)
          /\ UNCHANGED <<device, object_path, sanitized>>
          /\ LoopUnchanged

\* Manager::get_device(object_path)
GetDevice == \E path \in ManagerPaths : Device_new(path, OpsDocs)

NextManager == GetDevices \/ GetDevice \/ Release

SpecManager == Init /\ [][NextManager]_vars

(***************************************************************************)
(* The battery polling loop of async_main: read_battery_percent, the       *)
(* update of the tray, the sleep.  The tray is taken to live as long as    *)
(* the loop, so that handle.update takes effect.                           *)
(***************************************************************************)
MaxPollDevices == 2

\* f64::round: to the nearest whole number, halves away from zero
f64_round(x) ==
    IF x[1] THEN x
    ELSE IF x[2] >= 0 THEN F64(((x[2] + 5) \div 10) * 10)
    ELSE F64(-(((5 - x[2]) \div 10) * 10))

\* f64::clamp(min, max), min and max whole numbers
f64_clamp(x, min, max) ==
    IF x[1] THEN x
    ELSE IF x[2] < min * 10 THEN F64(min * 10)
    ELSE IF x[2] > max * 10 THEN F64(max * 10)
    ELSE x

\* `x as u8`: 0 for NaN, the whole part otherwise, kept within 0..255
f64_as_u8(x) ==
    IF x[1] THEN 0
    ELSE IF x[2] <= 0 THEN 0
    ELSE IF x[2] \div 10 > 255 THEN 255
    ELSE x[2] \div 10

BatteryGetter == <<"get_battery_percent", "getBattery", "d">>

\* the loop `for path in devices` from the k-th path on; answers[k] is what
\* the bus gives for the k-th path: to Introspect and to getBattery
RECURSIVE ReadFrom(_, _, _)
ReadFrom(paths, answers, k) ==
    IF k > Len(paths) THEN [reading |-> None, requests |-> <<>>]
    ELSE LET made == introspect(answers[k].introspect)
             dev == setup_capabilities(made.value)
             got == plain_getter(BatteryGetter, dev, answers[k].battery)
             rest == ReadFrom(paths, answers, k + 1)
         IN IF ~made.ok
              THEN [reading |-> rest.reading,
                    requests |-> Requests(paths[k], made.calls) \o rest.requests]
            ELSE IF ~has_feature(dev, "battery")
              THEN [reading |-> rest.reading,
                    requests |-> Requests(paths[k], made.calls) \o rest.requests]
            ELSE IF ~got.ok
              THEN [reading |-> rest.reading,
                    requests |-> Requests(paths[k], made.calls \o got.calls) \o rest.requests]
            ELSE [reading |-> Some(f64_as_u8(f64_clamp(f64_round(got.value), 0, 100))),
                  requests |-> Requests(paths[k], made.calls \o got.calls)]

\* Option<u8>, and the requests sent for it
read_battery_percent(devices, answers) ==
    IF ~get_devices(devices).ok
      THEN [reading |-> None, requests |-> Requests(OPENRAZER_ROOT_PATH, get_devices(devices).calls)]
    ELSE LET read == ReadFrom(get_devices(devices).value, answers, 1) IN
         [reading |-> read.reading,
          requests |-> Requests(OPENRAZER_ROOT_PATH, get_devices(devices).calls) \o read.requests]

\* one turn of the loop showing 0 when there is no reading
loop_turn_zeroing(held, reading) ==
    LET shown == IF reading # None THEN reading[1] ELSE 0 IN
    [loop_value |-> shown, counter |-> shown, task |-> "sleeping"]

\* one turn of the loop: `if let Some(percent) = .. { value = percent }`,
\* `tray.counter = value`, then the sleep
loop_turn(held, reading) ==
    LET shown == IF reading # None THEN reading[1] ELSE held IN
    [loop_value |-> shown, counter |-> shown, task |-> "sleeping"]

\* what the bus may give one poll
PollDeviceLists ==
    FailureReplies \cup {Reply("as", l) : l \in SeqsUpTo({<<"P">>, <<"-">>}, MaxPollDevices)}

PollIntrospectReplies ==
    {ErrorReply,
     Reply("s", DaemonDocument(<<InterfaceElement("razer.device.power", {"getBattery"})>>)),
     Reply("s", DaemonDocument(<<InterfaceElement("razer.device.misc", {"setPollRate"})>>)),
     Reply("s", <<NodeOpen>>)}

PollBatteryReplies ==
    {ErrorReply, MistypedReply}
        \cup {Reply("d", x) : x \in {F64(575), F64(-30), F64(2500), NaN}}

PollAnswers ==
    {[introspect |-> i, battery |-> b] : i \in PollIntrospectReplies, b \in PollBatteryReplies}

Poll ==
    /\ task = "polling"
    /\ \E devices \in PollDeviceLists :
        \E answers \in [1..(IF get_devices(devices).ok THEN Len(get_devices(devices).value)
                                                        ELSE 0) -> PollAnswers] :
            LET read == read_battery_percent(devices, answers)
                turn == loop_turn(loop_value, read.reading)
            IN /\ loop_value' = turn.loop_value
               /\ counter' = turn.counter
               /\ task' = turn.task
               /\ last' = [MkLast("read_battery_percent",
                                  [kind |-> "poll", sig |-> "", body |-> <<devices, answers>>],
                                  Ok(read.reading,
                                     [k \in 1..Len(read.requests) |-> read.requests[k].member]))
                             EXCEPT !.arg = <<loop_value>>]
               /\ requests' = read.requests
               /\ UNCHANGED <<device, object_path, sanitized>>

\* tokio::time::sleep(..).await has elapsed: the loop starts its next turn
Wake ==
    /\ task = "sleeping"
    /\ task' = "polling"
    /\ last' = MkLast("idle", Unused, Ok(<<>>, <<>>))
    /\ requests' = <<>>
    /\ UNCHANGED <<device, object_path, sanitized, loop_value, counter>>

NextPoll == Poll \/ Wake

SpecPoll == Init /\ [][NextPoll]_vars

(***************************************************************************)
(* Properties of introspection (SpecIntrospect).                           *)
(***************************************************************************)
\* the document the latest Device::new received
ReturnedDoc == last.reply.body

Constructed == last.op = "new" /\ last.reply.kind = "reply" /\ last.reply.sig = "s"

\* the element that encloses line j of doc: the nearest earlier start tag with as
\* many start tags as end tags between it and j (0: none)
Between(doc, i, j, kinds) == Cardinality({k \in (i + 1)..(j - 1) : doc[k].kind \in kinds})

ParentIndex(doc, j) ==
    LET c == {i \in 1..(j - 1) :
                /\ doc[i].kind \in OpenKinds
                /\ Between(doc, i, j, OpenKinds) = Between(doc, i, j, {"node_close", "iface_close"})}
    IN IF c = {} THEN 0 ELSE CHOOSE i \in c : \A k \in c : k <= i

\* C1: when introspect returns a capability set, every interface element with a
\* (non-empty) name I has put "I" in it, also when it has no method child, and
\* every method child of it that is named M has put "I;M" in it.
C1_InterfaceAndMethodEntries ==
    (Constructed /\ last.ok) =>
        \A i \in 1..Len(ReturnedDoc) :
            (ReturnedDoc[i].kind = "iface_open" /\ ReturnedDoc[i].name \notin {None, Some("")}) =>
                /\ ReturnedDoc[i].name[1] \in device.introspection
                /\ \A j \in 1..Len(ReturnedDoc) :
                      (/\ ReturnedDoc[j].kind = "method"
                       /\ ParentIndex(ReturnedDoc, j) = i
                       /\ ReturnedDoc[j].name # None) =>
                          (ReturnedDoc[i].name[1] \o ";" \o ReturnedDoc[j].name[1])
                              \in device.introspection

\* a document behind a two-line DOCTYPE whose interface razer.device.dpi has the
\* method child setDPI has been introspected
C1_Witness ==
    /\ Constructed /\ last.ok
    /\ ReturnedDoc[1] = DtOpen
    /\ \E i, j \in 1..Len(ReturnedDoc) :
          /\ ReturnedDoc[i] = IfaceOpen(Some("razer.device.dpi"))
          /\ ReturnedDoc[j] = Method(Some("setDPI"))
          /\ ParentIndex(ReturnedDoc, j) = i
    /\ device.introspection = {"razer.device.dpi", "razer.device.dpi;setDPI"}

\* the last line of the DOCTYPE declaration that starts doc, by the XML grammar:
\* an external identifier ends at the system literal's ">", an internal subset
\* at "]>" (0: doc does not start with a declaration of several lines)
DoctypeEnd(doc) ==
    LET ends == {j \in 2..Len(doc) :
                   \/ /\ doc[1].kind = "doctype_open"
                      /\ doc[j].kind = "doctype_sysid"
                      /\ \A k \in 2..(j - 1) : doc[k].kind = "doctype_cont"
                   \/ /\ doc[1].kind = "doctype_subset_open"
                      /\ doc[j].kind = "doctype_subset_close"
                      /\ \A k \in 2..(j - 1) : doc[k].kind = "doctype_entity"}
    IN IF doc = <<>> \/ ends = {} THEN 0 ELSE CHOOSE j \in ends : \A k \in ends : j <= k

\* C2: for a document whose DOCTYPE declaration spans several lines,
\* strip_doctype removes exactly the lines of the declaration, keeps the others
\* in order, and so leaves a well-formed document well-formed.
C2_MultiLineDoctypeStripped ==
    (Constructed /\ DoctypeEnd(ReturnedDoc) > 1) =>
        /\ sanitized = SubSeq(ReturnedDoc, DoctypeEnd(ReturnedDoc) + 1, Len(ReturnedDoc))
        /\ Document_parse(ReturnedDoc) => Document_parse(sanitized)

\* C10 as stated: a Device comes only from a successful call and parse, and a
\* returned document that is not well-formed makes construction fail with the
\* parse error and gives no Device.
C10_MalformedDocumentFails ==
    (last.op = "new") =>
        /\ device.exists => (Constructed /\ last.ok)
        /\ (Constructed /\ ~Document_parse(ReturnedDoc)) =>
              (~last.ok /\ last.err = "Failure" /\ ~device.exists)

\* C10 amended: the document that is parsed is the one strip_doctype leaves.
\* A Device exists exactly when the call succeeded and that document parsed;
\* when it does not parse the result is the Failure "Failed to parse
\* introspection XML", which a failed call (a propagated zbus error) never is.
C10_ParseFailureFailsConstruction ==
    (last.op = "new") =>
        /\ device.exists <=> (Constructed /\ Document_parse(sanitized))
        /\ device.exists <=> last.ok
        /\ (Constructed /\ ~Document_parse(sanitized)) =>
              (last.err = "Failure" /\ last.msg = "Failed to parse introspection XML")
        /\ ~Constructed => last.err = "zbus"
        /\ last.calls = IF last.reply.kind = "no_proxy" THEN <<>> ELSE <<"Introspect">>

\* a document whose stripped text does not parse has made construction fail
C10_Witness ==
    /\ Constructed
    /\ ~Document_parse(sanitized)
    /\ ~last.ok /\ ~device.exists

(***************************************************************************)
(* Properties of the capability model (SpecCaps).                          *)
(***************************************************************************)
\* C3: a constructed Device has the feature "dpi" exactly when its introspection
\* set holds "razer.device.dpi;setDPI"; neither the bare interface nor another
\* method of it (getDPI, availableDPI, setDPIStages) gives the feature.
C3_DpiFeatureIffSetDPI ==
    device.exists =>
        (has_feature(device, "dpi") <=> "razer.device.dpi;setDPI" \in device.introspection)

\* a Device with the feature, and with the entry
C3_Witness ==
    /\ device.exists
    /\ has_feature(device, "dpi")
    /\ {"razer.device.dpi", "razer.device.dpi;setDPI"} \subseteq device.introspection

\* C4: LedId::Unspecified is a key of supported_leds (with the label "Chroma")
\* exactly when the introspection set holds at least one of the four entries.
C4_ChromaLedEntries ==
    {"razer.device.lighting.chroma;setNone", "razer.device.lighting.chroma;setStatic",
     "razer.device.lighting.bw2013", "razer.device.lighting.brightness"}

C4_UnspecifiedLedIffAnyEntry ==
    device.exists =>
        /\ "Unspecified" \in DOMAIN supported_leds(device)
              <=> C4_ChromaLedEntries \cap device.introspection # {}
        /\ "Unspecified" \in DOMAIN supported_leds(device)
              => supported_leds(device)["Unspecified"] = "Chroma"

\* a Device whose only lighting entry of the four is razer.device.lighting.brightness
C4_Witness ==
    /\ device.exists
    /\ C4_ChromaLedEntries \cap device.introspection = {"razer.device.lighting.brightness"}
    /\ "Unspecified" \in DOMAIN supported_leds(device)

\* the interface each LED other than Unspecified comes from
C5_LedInterface ==
    [led \in LedIds \ {"Unspecified"} |->
        CASE led = "LogoLED" -> "razer.device.lighting.logo"
          [] led = "ScrollWheelLED" -> "razer.device.lighting.scroll"
          [] led = "BacklightLED" -> "razer.device.lighting.backlight"
          [] led = "LeftSideLED" -> "razer.device.lighting.left"
          [] led = "RightSideLED" -> "razer.device.lighting.right"
          [] led \in {"KeymapRedLED", "KeymapGreenLED", "KeymapBlueLED"} ->
               "razer.device.lighting.profile_led"
          [] led = "ChargingLED" -> "razer.device.lighting.charging"
          [] led = "FastChargingLED" -> "razer.device.lighting.fast_charging"
          [] led = "FullyChargedLED" -> "razer.device.lighting.fully_charged"]

\* C5 as stated: each LED other than Unspecified is a key of supported_leds
\* exactly when the bare name of its one interface is in the introspection set.
C5_LedIffBareInterface ==
    device.exists =>
        \A led \in LedIds \ {"Unspecified"} :
            led \in DOMAIN supported_leds(device) <=> C5_LedInterface[led] \in device.introspection

\* the one introspection entry of each LED: the bare interface name, but for the
\* three keymap LEDs a method of razer.device.lighting.profile_led
C5_LedEntry ==
    [led \in LedIds \ {"Unspecified"} |->
        CASE led = "KeymapRedLED" -> "razer.device.lighting.profile_led;setRedLED"
          [] led = "KeymapGreenLED" -> "razer.device.lighting.profile_led;setGreenLED"
          [] led = "KeymapBlueLED" -> "razer.device.lighting.profile_led;setBlueLED"
          [] OTHER -> C5_LedInterface[led]]

\* C5 amended: each LED other than Unspecified has exactly one entry (no two
\* LEDs the same one) and is a key of supported_leds exactly when that entry is
\* in the introspection set: the bare interface name for eight of them, the
\* entries profile_led;setRedLED, ;setGreenLED, ;setBlueLED for the keymap LEDs.
C5_LedIffItsEntry ==
    /\ \A a, b \in LedIds \ {"Unspecified"} : C5_LedEntry[a] = C5_LedEntry[b] => a = b
    /\ device.exists =>
          \A led \in LedIds \ {"Unspecified"} :
              led \in DOMAIN supported_leds(device) <=> C5_LedEntry[led] \in device.introspection

\* a Device with the interface profile_led and of its methods only setRedLED:
\* the red keymap LED is there, the green one is not
C5_Witness ==
    /\ device.exists
    /\ "razer.device.lighting.profile_led;setRedLED" \in device.introspection
    /\ "razer.device.lighting.profile_led;setGreenLED" \notin device.introspection
    /\ "KeymapRedLED" \in DOMAIN supported_leds(device)
    /\ "KeymapGreenLED" \notin DOMAIN supported_leds(device)

(***************************************************************************)
(* Properties of the typed operations (SpecOps).                           *)
(***************************************************************************)
\* the latest operation was op and the bus gave it a reply of signature sig
Replied(op, sig) == last.op = op /\ last.reply.kind = "reply" /\ last.reply.sig = sig

\* C6: get_dpi decodes the raw array a by its length: length 1 gives
\* Dpi{x: a[0], y: 0}, length 2 gives Dpi{x: a[0], y: a[1]}, any other length
\* gives the decode error and no Dpi.  x and y are 16-bit fields: they hold
\* a[k] as `as u16` gives it, which is a[k] itself for a[k] in 0..65535.
C6_DpiDecodedByLength ==
    Replied("get_dpi", "ai") =>
        LET a == last.reply.body IN
        CASE Len(a) = 1 -> last.ok /\ last.value = Dpi(a[1] % 65536, 0)
          [] Len(a) = 2 -> last.ok /\ last.value = Dpi(a[1] % 65536, a[2] % 65536)
          [] OTHER -> /\ ~last.ok
                      /\ last.err = "Failure"
                      /\ last.msg = "Invalid return array from DPI"
                      /\ last.value = <<>>

\* get_dpi has decoded the raw array [800, 125]
C6_Witness ==
    /\ Replied("get_dpi", "ai")
    /\ last.reply.body = <<800, 125>>
    /\ last.ok
    /\ last.value = Dpi(800, 125)

C7_Entry == "razer.device.misc;getSupportedPollRates"

\* C7: without the entry "razer.device.misc;getSupportedPollRates" in the
\* introspection set, get_supported_poll_rates gives [125, 500, 1000]
\* successfully and issues no call; with the entry it issues the one call
\* getSupportedPollRates and gives its values (each as `as u16` gives it) or
\* its error, never the fixed list in place of them.
C7_PollRatesFallback ==
    (last.op = "get_supported_poll_rates") =>
        /\ C7_Entry \notin device.introspection =>
              (last.ok /\ last.value = <<125, 500, 1000>> /\ last.calls = <<>>)
        /\ (C7_Entry \in device.introspection /\ Replied("get_supported_poll_rates", "ai")) =>
              /\ last.ok
              /\ last.value = [k \in 1..Len(last.reply.body) |-> last.reply.body[k] % 65536]
              /\ last.calls = <<"getSupportedPollRates">>
        /\ (C7_Entry \in device.introspection /\ ~Replied("get_supported_poll_rates", "ai")) =>
              (~last.ok /\ last.err = "zbus")

\* a Device without the entry has given the fixed list
C7_Witness ==
    /\ last.op = "get_supported_poll_rates"
    /\ "razer.device.misc" \in device.introspection
    /\ C7_Entry \notin device.introspection
    /\ last.value = <<125, 500, 1000>>

\* the JSON texts of the token alphabet, by the grammar: a string, a number, an
\* empty object, or an object of one member whose value is such a text
C8_Atoms ==
    {<<t>> : t \in {k \in JsonTokens : k.t \in {"str", "num"}}}
        \cup {<<JsonToken("{", ""), JsonToken("}", "")>>}

C8_Wrap(texts) ==
    {<<JsonToken("{", ""), k, JsonToken(":", "")>> \o v \o <<JsonToken("}", "")>> :
        k \in {t \in JsonTokens : t.t = "str"}, v \in texts}

C8_ValidJson == C8_Atoms \cup C8_Wrap(C8_Atoms) \cup C8_Wrap(C8_Wrap(C8_Atoms))

\* the payload is {"top_img": "<string>"}
C8_HasTopImgString(p) ==
    /\ Len(p) = 5
    /\ p[2] = JsonToken("str", "top_img")
    /\ p[4].t = "str"

\* C8: get_device_image_url gives the string of top_img when the payload is
\* JSON with that field a string, "" (and no error) when the payload is JSON
\* without the field or with the field not a string, an error otherwise.
C8_ImageUrlFromTopImg ==
    Replied("get_device_image_url", "s") =>
        LET p == last.reply.body IN
        IF p \notin C8_ValidJson THEN ~last.ok /\ last.err = "Failure"
        ELSE IF C8_HasTopImgString(p) THEN last.ok /\ last.value = p[4].v
        ELSE last.ok /\ last.value = ""

\* the payload {"top_img": "http://x"} has given "http://x"
C8_Witness ==
    /\ Replied("get_device_image_url", "s")
    /\ last.reply.body = <<JsonToken("{", ""), JsonToken("str", "top_img"), JsonToken(":", ""),
                           JsonToken("str", "http://x"), JsonToken("}", "")>>
    /\ last.ok /\ last.value = "http://x"

\* the typed operations of Device
TypedOps ==
    {"get_device_image_url", "get_device_type", "get_keyboard_layout", "get_poll_rate",
     "max_dpi", "get_supported_poll_rates", "get_dpi", "get_allowed_dpi",
     "get_matrix_dimensions"}
        \cup {g[1] : g \in PlainGetters} \cup {g[1] : g \in Setters}

\* the shape each operation expects of its raw response (spec 4.3): the type of
\* the body and, where the operation decodes it, its length or content
C9_ExpectedShape ==
    LET op == last.op
        sig == last.reply.sig
        body == last.reply.body
    IN /\ last.reply.kind = "reply"
       /\ CASE op = "get_dpi" -> sig = "ai" /\ Len(body) \in {1, 2}
            [] op = "get_allowed_dpi" -> sig = "ai" /\ Len(body) >= 1
            [] op = "get_matrix_dimensions" -> sig = "ai" /\ Len(body) = 2
            [] op = "get_supported_poll_rates" -> sig = "ai"
            [] op \in {"get_poll_rate", "max_dpi"} -> sig = "i"
            [] op = "get_device_image_url" ->
                 sig = "s" /\ body \in C8_ValidJson /\ C8_HasTopImgString(body)
            [] op = "get_device_type" -> sig = "s" /\ body \in {"core", "mousemat", "mug"}
            [] op = "get_keyboard_layout" -> sig = "s" /\ body \in Layouts \ {"xx_YY"}
            [] op \in {g[1] : g \in PlainGetters} ->
                 \E g \in PlainGetters : g[1] = op /\ g[3] = sig
            [] OTHER -> sig = ""

\* the two silent substitutions the claim allows
C9_PollRatesFallback ==
    /\ last.op = "get_supported_poll_rates"
    /\ last.reply.kind = "unused"
    /\ last.value = <<125, 500, 1000>>

C9_CodePassthrough ==
    /\ last.op \in {"get_device_type", "get_keyboard_layout"}
    /\ last.reply.sig = "s"
    /\ last.value = last.reply.body

\* the third one: "" for a JSON payload without a string top_img
C9_ImageUrlDefault ==
    /\ last.op = "get_device_image_url"
    /\ last.reply.sig = "s"
    /\ last.reply.body \in C8_ValidJson
    /\ last.value = ""

\* C9 as stated: an operation succeeds without a response of the expected shape
\* only as the poll-rates fallback or as the passthrough of an unmapped
\* device-type or layout code; a failed call gives an error; no call is repeated.
C9_OnlyTwoSilentFallbacks ==
    (last.op \in TypedOps) =>
        /\ Len(last.calls) <= 1
        /\ last.reply.kind \in {"no_proxy", "error"} => (~last.ok /\ last.err = "zbus")
        /\ (last.ok /\ ~C9_ExpectedShape) => (C9_PollRatesFallback \/ C9_CodePassthrough)

\* C9 amended: there are three such cases, the third being the empty string of
\* get_device_image_url for a JSON payload without a string top_img.
C9_OnlyThreeSilentFallbacks ==
    (last.op \in TypedOps) =>
        /\ Len(last.calls) <= 1
        /\ last.reply.kind \in {"no_proxy", "error"} => (~last.ok /\ last.err = "zbus")
        /\ (last.ok /\ ~C9_ExpectedShape) =>
              (C9_PollRatesFallback \/ C9_CodePassthrough \/ C9_ImageUrlDefault)
        /\ (~last.ok /\ last.reply.kind \notin {"no_proxy", "error"}) => ~C9_ExpectedShape

\* get_allowed_dpi has been given an empty array and has returned the decode error
C9_Witness ==
    /\ Replied("get_allowed_dpi", "ai")
    /\ last.reply.body = <<>>
    /\ ~last.ok
    /\ last.msg = "Invalid return array from availableDPI"
    /\ last.calls = <<"availableDPI">>

\* C11: get_device_type gives "accessory" for the raw type "core", "mousepad"
\* for "mousemat", "accessory" for "mug", and every other raw type unchanged.
C11_DeviceTypeMapping ==
    Replied("get_device_type", "s") =>
        LET raw == last.reply.body IN
        /\ last.ok
        /\ last.calls = <<"getDeviceType">>
        /\ raw = "core" => last.value = "accessory"
        /\ raw = "mousemat" => last.value = "mousepad"
        /\ raw = "mug" => last.value = "accessory"
        /\ raw \notin {"core", "mousemat", "mug"} => last.value = raw

\* the raw type "mug" has been given as "accessory"
C11_Witness ==
    /\ Replied("get_device_type", "s")
    /\ last.reply.body = "mug"
    /\ last.ok /\ last.value = "accessory"

\* the entries of the elements of doc that have a usable name: "I" for an
\* interface element named I, "I;M" for a method child named M of such an one
C13_NamedEntries(doc) ==
    {doc[i].name[1] : i \in {k \in 1..Len(doc) :
        doc[k].kind = "iface_open" /\ doc[k].name \notin {None, Some("")}}}
    \cup
    {doc[ParentIndex(doc, j)].name[1] \o ";" \o doc[j].name[1] :
        j \in {k \in 1..Len(doc) :
            /\ doc[k].kind = "method"
            /\ doc[k].name \notin {None, Some("")}
            /\ ParentIndex(doc, k) > 0
            /\ doc[ParentIndex(doc, k)].kind = "iface_open"
            /\ doc[ParentIndex(doc, k)].name \notin {None, Some("")}}}

\* C13: an interface or method element without a usable (present, non-empty)
\* name is skipped: parsing does not fail for it, it adds no entry, and the
\* capability set is the entries of the named elements.
C13_UnusableNamesSkipped ==
    (Constructed /\ Document_parse(sanitized)) =>
        /\ last.ok
        /\ device.exists
        /\ device.introspection = C13_NamedEntries(sanitized)

\* the capability tags has_feature is asked for
FeatureTags ==
    {"keyboard_layout", "dpi", "restricted_dpi", "dpi_stages", "poll_rate", "custom_frame",
     "battery", "low_battery_threshold", "idle_time", "no_such_feature"}

IntrospectRequests == SelectSeq(requests, LAMBDA q : q.member = "Introspect")

\* C12 as stated: get_devices gives, in the order reported, the path
\* "/org/razer/device/<serial>" of each reported serial and sends no
\* Introspect request; an Introspect request for a path is sent only by
\* get_device called for that path, and exactly once by each such call.
C12_OnePathPerSerial ==
    /\ Replied("get_devices", "as") =>
          /\ last.ok
          /\ last.value = [k \in 1..Len(last.reply.body) |-> DevicePath(last.reply.body[k])]
    /\ last.op = "get_devices" => IntrospectRequests = <<>>
    /\ \A k \in 1..Len(IntrospectRequests) :
          last.op = "new" /\ IntrospectRequests[k].path = last.arg
    /\ last.op = "new" => Len(IntrospectRequests) = 1

\* C12 amended: get_devices gives the paths, in the order reported, when each
\* of them is a valid object path, and the Failure error and no path when one
\* is not; it sends the one request getDevices to the root object.  An
\* Introspect request is sent only by get_device, to the path it was called
\* for: once, or not at all when the proxy for the path could not be made.
C12_LazyIntrospection ==
    /\ Replied("get_devices", "as") =>
          LET paths == [k \in 1..Len(last.reply.body) |-> DevicePath(last.reply.body[k])] IN
          IF \A k \in 1..Len(paths) : ValidObjectPath(paths[k])
            THEN last.ok /\ last.value = paths
          ELSE ~last.ok /\ last.err = "Failure" /\ last.value = <<>>
    /\ last.op = "get_devices" =>
          requests \in {<<>>, <<[path |-> OPENRAZER_ROOT_PATH, member |-> "getDevices"]>>}
    /\ \A k \in 1..Len(IntrospectRequests) :
          last.op = "new" /\ IntrospectRequests[k].path = last.arg
    /\ last.op = "new" =>
          Len(IntrospectRequests) = IF last.reply.kind = "no_proxy" THEN 0 ELSE 1

\* get_devices has been given two serials and has returned their two paths
C12_Witness ==
    /\ Replied("get_devices", "as")
    /\ last.reply.body = <<<<"P", "1">>, <<"P">>>>
    /\ last.ok
    /\ last.value = <<DevicePath(<<"P", "1">>), DevicePath(<<"P">>)>>
    /\ requests = <<[path |-> OPENRAZER_ROOT_PATH, member |-> "getDevices"]>>

(***************************************************************************)
(* Properties of the polling loop (SpecPoll).                              *)
(***************************************************************************)
\* what the bus gave the poll that has just finished
C15_Devices == last.reply.body[1]

C15_Answers == last.reply.body[2]

\* the k-th enumerated device constructs, has the "battery" feature and
\* answers the battery read
C15_Reads(answer) ==
    /\ introspect(answer.introspect).ok
    /\ has_feature(setup_capabilities(introspect(answer.introspect).value), "battery")
    /\ answer.battery.kind = "reply"
    /\ answer.battery.sig = "d"

C15_FirstReading ==
    CHOOSE k \in 1..Len(C15_Answers) :
        /\ C15_Reads(C15_Answers[k])
        /\ \A j \in 1..(k - 1) : ~C15_Reads(C15_Answers[j])

C15_NoReading ==
    \/ ~get_devices(C15_Devices).ok
    \/ \A k \in 1..Len(C15_Answers) : ~C15_Reads(C15_Answers[k])

\* C15: the displayed value starts at 0; a poll that yields no reading
\* (enumeration fails, or every device fails to construct, lacks the
\* "battery" feature or fails the battery read) leaves the displayed value
\* as it was when the poll began, a poll that yields one displays it,
\* rounded and kept within 0..100; the value is kept while the loop sleeps,
\* and no poll ends the loop: after each poll it sleeps and then polls again
C15_FailedPollKeepsValue ==
    [][/\ last.op = "none" => counter = 0
       /\ task' \in {"polling", "sleeping"}
       /\ task = "polling" => task' = "sleeping" /\ last'.arg = <<counter>>
       /\ task = "sleeping" =>
             /\ task' = "polling"
             /\ counter' = counter
             /\ C15_NoReading => counter = last.arg[1]
             /\ ~C15_NoReading =>
                   counter = f64_as_u8(f64_clamp(f64_round(
                                C15_Answers[C15_FirstReading].battery.body), 0, 100))]_vars

\* a poll without a reading, because the battery read failed, has followed
\* a poll that read 58
C15_Witness ==
    /\ last.op = "read_battery_percent"
    /\ last.value = None
    /\ counter = 58
    /\ Len(C15_Answers) = 1
    /\ introspect(C15_Answers[1].introspect).ok
    /\ has_feature(setup_capabilities(introspect(C15_Answers[1].introspect).value), "battery")
    /\ C15_Answers[1].battery = ErrorReply

====
